---------------------------- MODULE Spec2Model ----------------------------
(***************************************************************************)
(* netpipefs: the distributed pipe engine of src/src/netpipe.c.            *)
(*                                                                         *)
(* Two hosts, "A" and "B", each hold one open-files table and one          *)
(* dispatcher thread; host A has two user threads and host B one.  One     *)
(* path is modelled.  A pipe operation is one action from the point where  *)
(* it takes the pipe mutex to the point where it releases it (a return or  *)
(* a pthread_cond_wait); the steps that the code runs without the pipe     *)
(* mutex (the table lookup before the lock, the flush inside close) are    *)
(* actions of their own.  The channel between the hosts is reliable and    *)
(* ordered.  In Spec, ReopenSpec, LiveSpec, FlowSpec and QueueSpec it     *)
(* stays up, so force_exit stays 0; in TeardownSpec and CancelSpec a       *)
(* dispatcher may find it lost, which sets force_exit on the pipe of its   *)
(* table.  BoundedSpec gives the channel a finite capacity, TableSpec runs *)
(* the table's get-or-create step by step, HandshakeSpec runs the          *)
(* handshake of main.c.                                                    *)
(*                                                                         *)
(* The use of a freed pipe and a WRITE larger than the receiver's room end *)
(* the run (variable fault): nothing is claimed about what follows them.   *)
(***************************************************************************)
EXTENDS Integers, Sequences, FiniteSets, TLC

(***************************************************************************)
(* Bounds of the model.                                                    *)
(***************************************************************************)
MaxCap == 2       \* pipe capacities are drawn from 1..MaxCap
MaxSize == 2      \* a send or read call asks for 1..MaxSize bytes
MaxOps == 2       \* send/read calls one user thread may issue
MaxOpens == 2     \* open calls one user thread may issue
FlowCap == 3      \* flow-control scenario: the capacity of both hosts
FlowRead == 2     \* flow-control scenario: bytes asked by each read
FlowReads == 4    \* flow-control scenario: number of reads
MaxPort == 3      \* handshake: ports are drawn from 1..MaxPort

(***************************************************************************)
(* size_t arithmetic wraps.  The code's size_t is 64 bits wide; the model  *)
(* keeps the wrap-around with a narrower word, far above every capacity    *)
(* and request size of the model.                                          *)
(***************************************************************************)
SIZE_MOD == 65536

O_RDONLY == 0
O_WRONLY == 1
O_RDWR == 2
NOT_OPEN == -1

Sides == {"A", "B"}
Peer(s) == IF s = "A" THEN "B" ELSE "A"

Threads == {"a1", "a2", "b1"}
SideOf(t) == IF t = "b1" THEN "B" ELSE "A"

\* Values an indeterminate byte (uninitialised heap memory, memory past the
\* end of the caller's buffer) may hold: 0 is a value no writer ever writes,
\* 1 is the value of the first byte written.
Indeterminate == {0, 1}

NoFile == [absent |-> TRUE]
NoReq == [buf |-> <<>>, size |-> 0, bytes_processed |-> 0, error |-> "0"]

Min(a, b) == IF a < b THEN a ELSE b
SzAdd(a, b) == (a + b) % SIZE_MOD
SzSub(a, b) == (a - b + SIZE_MOD) % SIZE_MOD

\* n bytes of memory starting `from` bytes into a region whose first Len(buf)
\* bytes are buf and whose further bytes are indeterminate (g)
BytesAt(buf, from, n, g) ==
    [i \in 1..n |-> IF from + i <= Len(buf) THEN buf[from + i] ELSE g]

Drop(q, n) == SubSeq(q, n + 1, Len(q))
Take(q, n) == SubSeq(q, 1, n)

VARIABLES
    open_files,     \* [side -> the open-files table, its mutex and the calls of get_or_create]
    handshake,      \* [side -> the locals of establish_socket_connection and its outcome]
    pipecapacity,   \* [side -> netpipefs_options.pipecapacity]
    plan,           \* [thread -> the handles it may open and the calls it may make]
    file,           \* [side -> the struct netpipe in the open-files table, or NoFile]
    chan,           \* [side -> messages in flight towards that side, oldest first]
    th,             \* [thread -> the user thread's position and locals]
    req,            \* [thread -> its netpipe_req_t]
    disp,           \* [side -> the dispatcher thread's position]
    fault,          \* "none", or the undefined / out-of-protocol event that ended the run
    written,        \* number of bytes accepted from send calls so far
    delivered,      \* the bytes handed to read calls, in order
    acct,           \* [side -> bytes of the READs it sent, of the WRITEs it received]
    last            \* what the step just taken returned or sent (NoEvent otherwise)

vars == <<open_files, handshake, pipecapacity, plan, file, chan, th, req, disp, fault, written,
          delivered, acct, last>>

(***************************************************************************)
(* netpipe_alloc: a fresh pipe.                                            *)
(***************************************************************************)
netpipe_alloc(s) ==
    [ open_mode |-> NOT_OPEN,
      force_exit |-> 0,
      writers |-> 0,
      readers |-> 0,
      remotemax |-> pipecapacity[Peer(s)],
      remotesize |-> 0,
      buffer |-> <<>>,
      wr_req |-> <<>>,
      rd_req |-> <<>>,
      mtx |-> "free" ]

available_remote(f) == SzSub(f.remotemax, f.remotesize)

cbuf_space(s, f) == pipecapacity[s] - Len(f.buffer)

IdleThread ==
    [ pc |-> "idle", mode |-> O_RDONLY, nonblock |-> 0, just_created |-> 0,
      dangling |-> FALSE, opens |-> 0, ops |-> 0,
      size |-> 0, done |-> 0, buf |-> <<>> ]

IdleDisp == [pc |-> "idle", msg |-> [op |-> "NONE"], just_created |-> 0, dangling |-> FALSE]

(***************************************************************************)
(* Messages of the peer channel.  While a pipe operation builds a WRITE it *)
(* notes the sender's remotesize and remotemax at the moment of the send;  *)
(* the note goes to `last`, not on the wire.                               *)
(***************************************************************************)
OpenMsg(mode) == [op |-> "OPEN", mode |-> mode]
CloseMsg(mode) == [op |-> "CLOSE", mode |-> mode]
WriteMsg(side, data, rs, rm) ==
    [op |-> "WRITE", data |-> data, side |-> side, rs |-> rs, rm |-> rm]
ReadRequestMsg(n) == [op |-> "READ_REQUEST", size |-> n]
ReadMsg(n) == [op |-> "READ", size |-> n]

(***************************************************************************)
(* A context threads the state one pipe operation works on: the pipe, the  *)
(* requests of the side's threads and the messages sent so far.            *)
(***************************************************************************)
Ctx(s) == [s |-> s, f |-> file[s], rq |-> req, out |-> <<>>]


(***************************************************************************)
(* netpipe_add_request: the new request becomes the head of the list.      *)
(***************************************************************************)
netpipe_add_request(c, t, buf, size, mode) ==
    [c EXCEPT !.rq[t] = [buf |-> buf, size |-> size, bytes_processed |-> 0, error |-> "0"],
              !.f.rd_req = IF mode = O_RDONLY THEN <<t>> \o @ ELSE @,
              !.f.wr_req = IF mode = O_RDONLY THEN @ ELSE <<t>> \o @]

(***************************************************************************)
(* do_send: at most available_remote bytes of the caller's memory go out   *)
(* in one WRITE.  buf holds the valid bytes of the memory region and from  *)
(* is the offset of bufptr in it.                                          *)
(***************************************************************************)
do_send(c, buf, from, size, g) ==
    LET n == Min(size, available_remote(c.f)) IN
    [ c |-> IF n = 0 THEN c
            ELSE [c EXCEPT !.out = Append(@, WriteMsg(c.s, BytesAt(buf, from, n, g),
                                                      c.f.remotesize, c.f.remotemax)),
                           !.f.remotesize = SzAdd(@, n)],
      bytes |-> n ]

(***************************************************************************)
(* do_flush: at most available_remote bytes leave the local buffer in one  *)
(* WRITE.                                                                  *)
(***************************************************************************)
do_flush(c) ==
    LET n == Min(Len(c.f.buffer), available_remote(c.f)) IN
    [ c |-> IF n = 0 THEN c
            ELSE [c EXCEPT !.out = Append(@, WriteMsg(c.s, Take(c.f.buffer, n),
                                                      c.f.remotesize, c.f.remotemax)),
                           !.f.buffer = Drop(@, n),
                           !.f.remotesize = SzAdd(@, n)],
      bytes |-> n ]

(***************************************************************************)
(* do_buffered_read: cbuf_get of at most size bytes, then READ(n) to the   *)
(* peer when n > 0.                                                        *)
(***************************************************************************)
do_buffered_read(c, size) ==
    LET n == Min(size, Len(c.f.buffer)) IN
    [ c |-> IF n = 0 THEN c
            ELSE [c EXCEPT !.out = Append(@, ReadMsg(n)),
                           !.f.buffer = Drop(@, n)],
      data |-> Take(c.f.buffer, n) ]

(***************************************************************************)
(* send_data: flush the buffer, then serve the write requests from the     *)
(* head of the list while credit remains, then write the requests ahead    *)
(* into the buffer while it has room.                                      *)
(***************************************************************************)
RECURSIVE send_requests(_, _)
send_requests(c, g) ==
    IF available_remote(c.f) > 0 /\ c.f.wr_req # <<>>
    THEN LET t == Head(c.f.wr_req)
             r == c.rq[t]
             remaining == SzSub(r.size, r.bytes_processed)
             d == do_send(c, r.buf, r.bytes_processed, remaining, g)
             processed == SzAdd(r.bytes_processed, d.bytes)
         IN  send_requests([d.c EXCEPT !.rq[t].bytes_processed = processed,
                                       !.f.wr_req = IF processed = r.size THEN Tail(@) ELSE @],
                           g)
    ELSE c

RECURSIVE writeahead_requests(_, _)
writeahead_requests(c, g) ==
    IF c.f.wr_req # <<>> /\ cbuf_space(c.s, c.f) > 0
    THEN LET t == Head(c.f.wr_req)
             r == c.rq[t]
             remaining == SzSub(r.size, r.bytes_processed)
             n == Min(remaining, cbuf_space(c.s, c.f))
             processed == SzAdd(r.bytes_processed, n)
         IN  writeahead_requests(
                 [c EXCEPT !.f.buffer = @ \o BytesAt(r.buf, r.bytes_processed, n, g),
                           !.rq[t].bytes_processed = processed,
                           !.f.wr_req = IF processed = r.size THEN Tail(@) ELSE @],
                 g)
    ELSE c

send_data(c, g) == writeahead_requests(send_requests(do_flush(c).c, g), g)

(***************************************************************************)
(* netpipe_read_request and netpipe_read_update (dispatcher side).         *)
(***************************************************************************)
\* netpipe_read_request that grants no credit
netpipe_read_request_no_credit(c, size, g) == send_data(c, g)

netpipe_read_request(c, size, g) ==
    send_data([c EXCEPT !.f.remotemax = SzAdd(@, size)], g)

\* netpipe_read_update that takes the bytes off remotesize alone
netpipe_read_update_returns_credit(c, size, g) ==
    send_data([c EXCEPT !.f.remotesize = SzSub(@, size)], g)

netpipe_read_update(c, size, g) ==
    send_data([c EXCEPT !.f.remotemax = SzSub(@, size),
                        !.f.remotesize = SzSub(@, size)], g)

(***************************************************************************)
(* netpipe_recv: the payload of a WRITE goes to the read requests, from    *)
(* the head of the list, and what is left goes to the buffer (readahead).  *)
(* The value of the uninitialised local `wakeup` only decides whether a    *)
(* broadcast is made when no request completed; a waiter re-checks its     *)
(* own condition, so it changes no state.                                  *)
(***************************************************************************)
RECURSIVE recv_buffered(_)
recv_buffered(c) ==
    IF c.f.rd_req # <<>> /\ c.f.buffer # <<>>
    THEN LET t == Head(c.f.rd_req)
             r == c.rq[t]
             b == do_buffered_read(c, SzSub(r.size, r.bytes_processed))
             processed == SzAdd(r.bytes_processed, Len(b.data))
         IN  recv_buffered([b.c EXCEPT !.rq[t].buf = @ \o b.data,
                                       !.rq[t].bytes_processed = processed,
                                       !.f.rd_req = IF processed = r.size THEN Tail(@) ELSE @])
    ELSE c

RECURSIVE recv_socket(_, _)
recv_socket(c, data) ==
    IF c.f.rd_req # <<>> /\ c.f.buffer = <<>> /\ data # <<>>
    THEN LET t == Head(c.f.rd_req)
             r == c.rq[t]
             toberead == Min(SzSub(r.size, r.bytes_processed), Len(data))
             processed == SzAdd(r.bytes_processed, toberead)
         IN  recv_socket([c EXCEPT !.rq[t].buf = @ \o Take(data, toberead),
                                   !.rq[t].bytes_processed = processed,
                                   !.out = Append(@, ReadMsg(toberead)),
                                   !.f.rd_req = IF processed = r.size THEN Tail(@) ELSE @],
                         Drop(data, toberead))
    ELSE [c |-> c, rest |-> data]

\* bytes of the pending read requests still to be filled
RECURSIVE pending_read_remaining(_, _)
pending_read_remaining(q, rq) ==
    IF q = <<>> THEN 0
    ELSE SzSub(rq[Head(q)].size, rq[Head(q)].bytes_processed)
         + pending_read_remaining(Tail(q), rq)

netpipe_recv(c, data) ==
    LET k == recv_socket(recv_buffered(c), data)
        room == cbuf_space(c.s, k.c.f)
        n == Min(Len(k.rest), room)
    IN  [ c |-> [k.c EXCEPT !.f.buffer = @ \o Take(k.rest, n)],
          overrun |-> Len(k.rest) > room ]

(***************************************************************************)
(* netpipe_close_update: the counter drops; when it reaches 0 the pending  *)
(* requests of the other direction get EPIPE and the list is emptied.      *)
(***************************************************************************)
RECURSIVE set_error(_, _, _)
set_error(rq, q, e) ==
    IF q = <<>> THEN rq
    ELSE set_error([rq EXCEPT ![Head(q)].error = e], Tail(q), e)

\* netpipe_close_update without the loops over the requests
netpipe_close_update_counts_only(c, mode) ==
    IF mode = O_WRONLY THEN [c EXCEPT !.f.writers = @ - 1]
    ELSE [c EXCEPT !.f.readers = @ - 1]

netpipe_close_update(c, mode) ==
    IF mode = O_WRONLY
    THEN LET c1 == [c EXCEPT !.f.writers = @ - 1] IN
         IF c1.f.writers = 0
         THEN [c1 EXCEPT !.rq = set_error(@, c1.f.rd_req, "EPIPE"), !.f.rd_req = <<>>]
         ELSE c1
    ELSE LET c1 == [c EXCEPT !.f.readers = @ - 1] IN
         IF c1.f.readers = 0
         THEN [c1 EXCEPT !.rq = set_error(@, c1.f.wr_req, "EPIPE"), !.f.wr_req = <<>>]
         ELSE c1

(***************************************************************************)
(* netpipe_open_update: the peer's open is counted.                        *)
(***************************************************************************)
netpipe_open_update(c, mode) ==
    IF mode = O_RDONLY THEN [c EXCEPT !.f.readers = @ + 1]
    ELSE [c EXCEPT !.f.writers = @ + 1]


(***************************************************************************)
(* Bookkeeping of the actions.                                             *)
(***************************************************************************)
\* what a call may change of a side: the pipe of the table (its mutex
\* apart) and the number of messages sent to the peer so far
Frame(s) ==
    [ pipe |-> IF file[s] = NoFile THEN NoFile ELSE [file[s] EXCEPT !.mtx = "free"],
      sent |-> Len(chan[Peer(s)]) ]

NoFrame == [pipe |-> NoFile, sent |-> 0]

\* the dispatcher of the side has stopped: the channel is lost
ChannelLost(s) == disp[s].pc = "stopped"

NoEvent ==
    [ who |-> "none", call |-> "none", how |-> "none", mode |-> NOT_OPEN, nonblock |-> 0,
      size |-> 0, done |-> 0, processed |-> 0, error |-> "0",
      ret |-> 0, errno |-> "0", before |-> <<0, 0>>, after |-> <<0, 0>>,
      room |-> 0, buffered |-> 0, credit |-> <<0, 0>>, writes |-> <<>>,
      pre |-> NoFrame, post |-> NoFrame, open_files_mtx |-> "not_taken" ]

IsWrite(m) == m.op = "WRITE"
Wire(m) == IF m.op = "WRITE" THEN [op |-> "WRITE", data |-> m.data] ELSE m
\* the WRITEs of a step: size, remotesize and remotemax at the send
Writes(out) ==
    LET w == SelectSeq(out, IsWrite)
    IN  [i \in 1..Len(w) |-> [side |-> w[i].side, n |-> Len(w[i].data),
                              rs |-> w[i].rs, rm |-> w[i].rm]]

Counters(f) == IF f = NoFile THEN <<0, 0>> ELSE <<f.readers, f.writers>>

Fault(kind) ==
    /\ fault' = kind
    /\ UNCHANGED <<open_files, handshake, pipecapacity, plan, file, chan, acct, th, req, disp, written,
                   delivered, last>>

\* the bytes the READ messages of a step announce
RECURSIVE ReadBytes(_)
ReadBytes(out) ==
    IF out = <<>> THEN 0
    ELSE (IF Head(out).op = "READ" THEN Head(out).size ELSE 0) + ReadBytes(Tail(out))

\* the step of the dispatcher that received `got` bytes in a WRITE
CommitRecv(c, got) ==
    /\ file' = [file EXCEPT ![c.s] = c.f]
    /\ req' = c.rq
    /\ chan' = [chan EXCEPT ![Peer(c.s)] = @ \o [i \in 1..Len(c.out) |-> Wire(c.out[i])]]
    /\ acct' = [acct EXCEPT ![c.s].read_sent = @ + ReadBytes(c.out),
                            ![c.s].write_recv = @ + got]

Commit(c) == CommitRecv(c, 0)

\* netpipe_free: every other thread of the side that still holds the pointer
\* is left with a dangling pointer
Orphan(thmap, s, by) ==
    [u \in Threads |->
        IF SideOf(u) = s /\ u # by /\ thmap[u].pc # "idle"
        THEN [thmap[u] EXCEPT !.dangling = TRUE] ELSE thmap[u]]

OrphanDisp(s) == [disp EXCEPT ![s].dangling = (@ \/ disp[s].pc = "got")]

(***************************************************************************)
(* netpipe_open, first step: netpipefs_get_or_create_open_file.  The table *)
(* mutex makes the lookup and the insertion one step.  The caller picks    *)
(* the access mode and the nonblock flag of the handle.                    *)
(***************************************************************************)
netpipefs_get_or_create_open_file(t) ==
    LET s == SideOf(t)
        created == file[s] = NoFile
    IN  /\ fault = "none"
        /\ th[t].pc = "idle"
        /\ th[t].opens < plan[t].opens
        /\ \E m \in plan[t].modes :
              /\ m[1] # O_RDWR
              /\ th' = [th EXCEPT ![t] =
                        [IdleThread EXCEPT !.pc = "open_lock",
                                           !.mode = m[1], !.nonblock = m[2],
                                           !.just_created = IF created THEN 1 ELSE 0,
                                           !.opens = th[t].opens + 1,
                                           !.ops = th[t].ops]]
        /\ file' = IF created THEN [file EXCEPT ![s] = netpipe_alloc(s)] ELSE file
        /\ last' = [NoEvent EXCEPT !.open_files_mtx = "taken"]
        /\ UNCHANGED <<open_files, handshake, pipecapacity, plan, chan, acct, req, disp, fault, written, delivered>>

\* undo_open without the decrement
undo_open_skipped(f, mode) == f

\* label undo_open
undo_open(f, mode) ==
    IF mode = O_RDONLY
    THEN [f EXCEPT !.readers = @ - 1,
                   !.open_mode = IF f.readers - 1 = 0 THEN NOT_OPEN ELSE @]
    ELSE [f EXCEPT !.writers = @ - 1,
                   !.open_mode = IF f.writers - 1 = 0 THEN NOT_OPEN ELSE @]

\* label error: the pipe is removed and freed when this call created it;
\* otherwise the function returns NULL with the pipe mutex still locked
open_error(t, f0, f1, e, how) ==
    LET s == SideOf(t)
        back == [th[t] EXCEPT !.pc = "idle", !.dangling = FALSE]
        ev == [NoEvent EXCEPT !.who = t, !.call = "open", !.how = how,
                              !.mode = th[t].mode,
                              !.nonblock = th[t].nonblock, !.ret = -1, !.errno = e,
                              !.before = Counters(f0), !.after = Counters(f1),
                              !.pre = Frame(s),
                              !.open_files_mtx = IF th[t].just_created = 1
                                                 THEN "taken_under_pipe_mtx"
                                                 ELSE "not_taken"]
    IN  /\ chan' = chan
        /\ acct' = acct
        /\ IF th[t].just_created = 1
           THEN /\ file' = [file EXCEPT ![s] = NoFile]
                /\ th' = Orphan([th EXCEPT ![t] = back], s, t)
                /\ disp' = OrphanDisp(s)
           ELSE /\ file' = [file EXCEPT ![s] = [f1 EXCEPT !.mtx = t]]
                /\ th' = [th EXCEPT ![t] = back]
                /\ disp' = disp
        /\ last' = [ev EXCEPT !.post = Frame(s)']

(***************************************************************************)
(* netpipe_open from the lock to the return or the wait on canopen.        *)
(***************************************************************************)
netpipe_open(t) ==
    LET s == SideOf(t)
        me == th[t]
        f == file[s]
        f1 == IF me.mode = O_RDONLY THEN [f EXCEPT !.readers = @ + 1]
              ELSE [f EXCEPT !.writers = @ + 1]
        f2 == [f1 EXCEPT !.open_mode = me.mode]
        blocks == f2.readers = 0 \/ f2.writers = 0
    IN  /\ fault = "none"
        /\ me.pc = "open_lock"
        /\ IF me.dangling THEN Fault("use_after_free")
           ELSE /\ f.mtx = "free"
                /\ IF f.force_exit = 1
                   THEN open_error(t, f, f, "ENOENT", "precondition")
                   ELSE IF f.open_mode # NOT_OPEN /\ f.open_mode # me.mode
                   THEN open_error(t, f, f, "EPERM", "precondition")
                   ELSE IF me.nonblock = 1 /\ (f1.readers = 0 \/ f1.writers = 0)
                   THEN open_error(t, f, undo_open(f1, me.mode), "EAGAIN", "error")
                   ELSE IF ChannelLost(s)
                   THEN \* send_open_message fails: errno is what the socket left
                        open_error(t, f, undo_open(f1, me.mode), "send_failed", "error")
                   ELSE /\ chan' = [chan EXCEPT ![Peer(s)] = Append(@, OpenMsg(me.mode))]
                        /\ acct' = acct
                        /\ file' = [file EXCEPT ![s] = f2]
                        /\ th' = [th EXCEPT ![t].pc = IF blocks THEN "open_wait"
                                                      ELSE "opened"]
                        /\ last' = IF blocks THEN NoEvent
                                   ELSE [NoEvent EXCEPT !.who = t, !.call = "open",
                                                        !.how = "direct",
                                                        !.mode = me.mode,
                                                        !.nonblock = me.nonblock,
                                                        !.before = Counters(f),
                                                        !.after = Counters(f2)]
                        /\ disp' = disp
                /\ UNCHANGED <<open_files, handshake, pipecapacity, plan, req, fault, written, delivered>>

\* netpipe_open after pthread_cond_wait(canopen) with `if` in the place of
\* `while`: the woken thread does not test the counters again
netpipe_open_wake_once(t) ==
    LET me == th[t]
        f == file[SideOf(t)]
    IN  /\ fault = "none"
        /\ me.pc = "open_wait"
        /\ ~me.dangling
        /\ f.mtx = "free"
        /\ th' = [th EXCEPT ![t].pc = "opened"]
        /\ last' = [NoEvent EXCEPT !.who = t, !.call = "open", !.how = "woken",
                                   !.mode = me.mode, !.nonblock = me.nonblock,
                                   !.before = Counters(f), !.after = Counters(f)]
        /\ UNCHANGED <<open_files, handshake, pipecapacity, plan, file, chan, acct, req, disp, fault, written,
                       delivered>>

(***************************************************************************)
(* netpipe_open after pthread_cond_wait(canopen).                          *)
(***************************************************************************)
netpipe_open_wake(t) ==
    LET s == SideOf(t)
        me == th[t]
        f == file[s]
    IN  /\ fault = "none"
        /\ me.pc = "open_wait"
        /\ IF me.dangling THEN Fault("use_after_free")
           ELSE /\ f.mtx = "free"
                /\ f.force_exit = 1 \/ ~(f.readers = 0 \/ f.writers = 0)
                /\ IF f.force_exit = 1
                   THEN open_error(t, f, undo_open(f, me.mode), "ENOENT", "woken")
                   ELSE /\ th' = [th EXCEPT ![t].pc = "opened"]
                        /\ last' = [NoEvent EXCEPT !.who = t, !.call = "open",
                                                   !.how = "woken",
                                                   !.mode = me.mode,
                                                   !.nonblock = me.nonblock,
                                                   !.before = Counters(f),
                                                   !.after = Counters(f)]
                        /\ UNCHANGED <<file, disp, chan, acct>>
                /\ UNCHANGED <<open_files, handshake, pipecapacity, plan, req, fault, written, delivered>>

(***************************************************************************)
(* netpipe_send from the lock to the return or the wait on wr.  The bytes  *)
(* of the caller's buffer are numbered on from the bytes accepted so far.  *)
(***************************************************************************)
netpipe_send(t) ==
    LET s == SideOf(t)
        me == th[t]
        f == file[s]
    IN  /\ fault = "none"
        /\ me.pc = "opened"
        /\ me.mode = O_WRONLY
        /\ me.ops < plan[t].ops
        /\ IF me.dangling THEN Fault("use_after_free")
           ELSE /\ f.mtx = "free"
                /\ \E size \in plan[t].sizes, g \in Indeterminate :
                     LET buf == [i \in 1..size |-> written + i]
                         c0 == do_flush(Ctx(s)).c
                         d == IF available_remote(c0.f) > 0 /\ c0.f.buffer = <<>>
                              THEN do_send(c0, buf, 0, size, g)
                              ELSE [c |-> c0, bytes |-> 0]
                         \* cbuf_put(file->buffer, bufptr, size)
                         put == Min(size, cbuf_space(s, d.c.f))
                         c2 == [d.c EXCEPT !.f.buffer = @ \o BytesAt(buf, d.bytes, put, g)]
                         sent == d.bytes + put
                         remaining == SzSub(size, sent)
                         ev == [NoEvent EXCEPT !.who = t, !.call = "send", !.size = size,
                                               !.nonblock = me.nonblock,
                                               !.room = available_remote(f)
                                                        + cbuf_space(s, f),
                                               !.credit = <<f.remotesize, f.remotemax>>]
                     IN  IF f.force_exit = 1 \/ f.readers = 0
                         THEN /\ th' = [th EXCEPT ![t].ops = @ + 1]
                              /\ UNCHANGED <<file, req, chan, acct, written>>
                              /\ last' = [ev EXCEPT !.how = "precondition", !.ret = -1,
                                                    !.errno = "EPIPE",
                                                    !.pre = Frame(s),
                                                    !.post = Frame(s)']
                         ELSE IF d.bytes = size
                         THEN /\ th' = [th EXCEPT ![t].ops = @ + 1]
                              /\ last' = [ev EXCEPT !.how = "direct", !.done = size,
                                                    !.ret = size,
                                                    !.writes = Writes(d.c.out)]
                              /\ written' = written + size
                              /\ Commit(d.c)
                         ELSE IF sent = size \/ me.nonblock = 1
                         THEN /\ th' = [th EXCEPT ![t].ops = @ + 1]
                              /\ last' = [ev EXCEPT !.how = "writeahead", !.done = sent,
                                                    !.ret = sent,
                                                    !.buffered = put,
                                                    !.errno = IF sent = 0 THEN "EAGAIN"
                                                              ELSE "0",
                                                    !.writes = Writes(c2.out)]
                              /\ written' = written + Min(sent, size)
                              /\ Commit(c2)
                         ELSE /\ th' = [th EXCEPT ![t].ops = @ + 1,
                                                  ![t].pc = "send_wait",
                                                  ![t].size = size,
                                                  ![t].done = sent]
                              /\ last' = [NoEvent EXCEPT !.writes = Writes(c2.out)]
                              /\ written' = written
                              /\ Commit(netpipe_add_request(c2, t, Drop(buf, sent),
                                                            remaining, O_WRONLY))
                /\ UNCHANGED <<open_files, handshake, pipecapacity, plan, disp, fault, delivered>>

(***************************************************************************)
(* netpipe_send after pthread_cond_wait(wr).                               *)
(***************************************************************************)
netpipe_send_wake(t) ==
    LET s == SideOf(t)
        me == th[t]
        f == file[s]
        r == req[t]
        failed == r.bytes_processed = 0 /\ (f.force_exit = 1 \/ r.error # "0")
        sent == IF failed THEN -1 ELSE me.done + r.bytes_processed
    IN  /\ fault = "none"
        /\ me.pc = "send_wait"
        /\ IF me.dangling THEN Fault("use_after_free")
           ELSE /\ f.mtx = "free"
                /\ f.force_exit = 1 \/ r.bytes_processed = r.size \/ r.error # "0"
                /\ th' = [th EXCEPT ![t].pc = "opened", ![t].size = 0, ![t].done = 0]
                /\ req' = [req EXCEPT ![t] = NoReq]
                /\ last' = [NoEvent EXCEPT !.who = t, !.call = "send", !.how = "woken",
                                           !.size = me.size,
                                           !.done = me.done,
                                           !.processed = r.bytes_processed,
                                           !.error = IF f.force_exit = 1 /\ r.error = "0"
                                                     THEN "force_exit" ELSE r.error,
                                           !.ret = sent,
                                           !.errno = IF ~failed THEN "0"
                                                     ELSE IF r.error # "0" THEN r.error
                                                     ELSE "EPIPE"]
                /\ written' = IF sent > 0 THEN written + Min(sent, me.size) ELSE written
                /\ UNCHANGED <<open_files, handshake, pipecapacity, plan, file, chan, acct, disp, fault, delivered>>

(***************************************************************************)
(* netpipe_read from the lock to the return or the wait on rd.             *)
(***************************************************************************)
netpipe_read(t) ==
    LET s == SideOf(t)
        me == th[t]
        f == file[s]
    IN  /\ fault = "none"
        /\ me.pc = "opened"
        /\ me.mode = O_RDONLY
        /\ me.ops < plan[t].ops
        /\ IF me.dangling THEN Fault("use_after_free")
           ELSE /\ f.mtx = "free"
                /\ \E size \in plan[t].sizes :
                     LET b == do_buffered_read(Ctx(s), size)
                         read == Len(b.data)
                         remaining == size - read
                         ev == [NoEvent EXCEPT !.who = t, !.call = "read", !.size = size,
                                               !.nonblock = me.nonblock, !.done = read]
                     IN  IF f.force_exit = 1
                         THEN /\ th' = [th EXCEPT ![t].ops = @ + 1]
                              /\ last' = [ev EXCEPT !.how = "precondition", !.done = 0,
                                                    !.ret = -1, !.errno = "EPIPE"]
                              /\ UNCHANGED <<file, req, chan, acct, delivered>>
                         ELSE IF read = size \/ me.nonblock = 1
                         THEN /\ th' = [th EXCEPT ![t].ops = @ + 1]
                              /\ last' = [ev EXCEPT !.how = "buffered", !.ret = read,
                                                    !.errno = IF read = 0 THEN "EAGAIN"
                                                              ELSE "0"]
                              /\ delivered' = delivered \o b.data
                              /\ Commit(b.c)
                         ELSE IF f.writers = 0
                         THEN /\ th' = [th EXCEPT ![t].ops = @ + 1]
                              /\ last' = [ev EXCEPT !.how = "nowriter", !.ret = 0]
                              /\ delivered' = delivered
                              /\ Commit(b.c)
                         ELSE /\ th' = [th EXCEPT ![t].ops = @ + 1,
                                                  ![t].pc = "read_wait",
                                                  ![t].size = size,
                                                  ![t].done = read, ![t].buf = b.data]
                              /\ last' = NoEvent
                              /\ delivered' = delivered
                              /\ Commit([netpipe_add_request(b.c, t, <<>>, remaining,
                                                             O_RDONLY)
                                           EXCEPT !.out = Append(@, ReadRequestMsg(remaining))])
                /\ UNCHANGED <<open_files, handshake, pipecapacity, plan, disp, fault, written>>

(***************************************************************************)
(* netpipe_read after pthread_cond_wait(rd).  `read = -1` follows both     *)
(* branches of the error test, so an EPIPE on an empty request returns -1. *)
(***************************************************************************)
netpipe_read_wake(t) ==
    LET s == SideOf(t)
        me == th[t]
        f == file[s]
        r == req[t]
        failed == r.bytes_processed = 0 /\ (f.force_exit = 1 \/ r.error # "0")
        read == IF failed THEN -1 ELSE me.done + r.bytes_processed
    IN  /\ fault = "none"
        /\ me.pc = "read_wait"
        /\ IF me.dangling THEN Fault("use_after_free")
           ELSE /\ f.mtx = "free"
                /\ f.force_exit = 1 \/ r.bytes_processed = r.size \/ r.error # "0"
                /\ th' = [th EXCEPT ![t].pc = "opened", ![t].size = 0, ![t].done = 0,
                                    ![t].buf = <<>>]
                /\ req' = [req EXCEPT ![t] = NoReq]
                /\ last' = [NoEvent EXCEPT !.who = t, !.call = "read", !.how = "woken",
                                           !.size = me.size,
                                           !.done = me.done,
                                           !.processed = r.bytes_processed,
                                           !.error = IF f.force_exit = 1 /\ r.error = "0"
                                                     THEN "force_exit" ELSE r.error,
                                           !.ret = read,
                                           !.errno = IF failed /\ r.error \notin {"0", "EPIPE"}
                                                     THEN r.error ELSE "0"]
                /\ delivered' = IF failed THEN delivered ELSE delivered \o me.buf \o r.buf
                /\ UNCHANGED <<open_files, handshake, pipecapacity, plan, file, chan, acct, disp, fault, written>>

(***************************************************************************)
(* The tail of netpipe_close, under the pipe mutex: CLOSE goes to the      *)
(* peer; the pipe is removed and freed when both counters are 0.           *)
(***************************************************************************)
close_tail(t, f1, err) ==
    LET s == SideOf(t)
        back == [IdleThread EXCEPT !.opens = th[t].opens, !.ops = th[t].ops]
    IN  /\ chan' = IF ChannelLost(s) THEN chan
                   ELSE [chan EXCEPT ![Peer(s)] = Append(@, CloseMsg(th[t].mode))]
        /\ acct' = acct
        /\ last' = [NoEvent EXCEPT !.who = t, !.call = "close", !.how = "closed",
                                   !.mode = th[t].mode, !.size = th[t].size,
                                   !.ret = IF ChannelLost(s) THEN -1 ELSE err,
                                   !.buffered = Len(f1.buffer),
                                   !.after = Counters(f1),
                                   !.open_files_mtx =
                                       IF f1.writers = 0 /\ f1.readers = 0
                                       THEN "taken_under_pipe_mtx" ELSE "not_taken"]
        /\ IF f1.writers = 0 /\ f1.readers = 0
           THEN /\ file' = [file EXCEPT ![s] = NoFile]
                /\ th' = Orphan([th EXCEPT ![t] = back], s, t)
                /\ disp' = OrphanDisp(s)
           ELSE /\ file' = [file EXCEPT ![s] = f1]
                /\ th' = [th EXCEPT ![t] = back]
                /\ disp' = disp

(***************************************************************************)
(* netpipe_close from the lock: the counter drops; the last writer         *)
(* unlocks and goes on to netpipe_flush, every other caller runs the tail. *)
(***************************************************************************)
netpipe_close(t) ==
    LET s == SideOf(t)
        me == th[t]
        f == file[s]
        f1 == IF me.mode = O_WRONLY THEN [f EXCEPT !.writers = @ - 1]
              ELSE [f EXCEPT !.readers = @ - 1]
    IN  /\ fault = "none"
        /\ me.pc = "opened"
        /\ IF me.dangling THEN Fault("use_after_free")
           ELSE /\ f.mtx = "free"
                /\ IF me.mode = O_WRONLY /\ f1.writers = 0
                   THEN /\ file' = [file EXCEPT ![s] = f1]
                        /\ th' = [th EXCEPT ![t].pc = "close_flush",
                                            ![t].size = Len(f.buffer)]
                        /\ last' = NoEvent
                        /\ UNCHANGED <<chan, acct, disp>>
                   ELSE close_tail(t, f1, 0)
                /\ UNCHANGED <<open_files, handshake, pipecapacity, plan, req, fault, written, delivered>>

(***************************************************************************)
(* netpipe_flush(file, 0), called by netpipe_close without the mutex.  The *)
(* request it queues points at malloc'ed memory that is never filled.      *)
(***************************************************************************)
netpipe_flush(t) ==
    LET s == SideOf(t)
        me == th[t]
        f == file[s]
        fl == do_flush(Ctx(s))
        remaining == Len(fl.c.f.buffer)
    IN  /\ fault = "none"
        /\ me.pc = "close_flush"
        /\ IF me.dangling THEN Fault("use_after_free")
           ELSE /\ f.mtx = "free"
                /\ IF f.force_exit = 1 \/ f.readers = 0
                   THEN /\ th' = [th EXCEPT ![t].pc = "close_relock", ![t].done = -1]
                        /\ UNCHANGED <<file, req, chan, acct>>
                        /\ last' = [NoEvent EXCEPT !.who = t, !.call = "flush",
                                                   !.how = "precondition",
                                                   !.ret = -1, !.errno = "EPIPE",
                                                   !.pre = Frame(s),
                                                   !.post = Frame(s)']
                   ELSE IF remaining = 0
                   THEN /\ th' = [th EXCEPT ![t].pc = "close_relock",
                                            ![t].done = IF fl.bytes > 0 THEN fl.bytes ELSE -1]
                        /\ last' = [NoEvent EXCEPT !.writes = Writes(fl.c.out)]
                        /\ Commit(fl.c)
                   ELSE /\ th' = [th EXCEPT ![t].pc = "flush_wait", ![t].done = fl.bytes]
                        /\ last' = [NoEvent EXCEPT !.writes = Writes(fl.c.out)]
                        /\ Commit(netpipe_add_request(fl.c, t, <<>>, remaining, O_WRONLY))
                /\ UNCHANGED <<open_files, handshake, pipecapacity, plan, disp, fault, written, delivered>>

(***************************************************************************)
(* netpipe_flush after pthread_cond_wait(wr).                              *)
(***************************************************************************)
netpipe_flush_wake(t) ==
    LET s == SideOf(t)
        me == th[t]
        f == file[s]
        r == req[t]
        failed == r.bytes_processed = 0 /\ (f.force_exit = 1 \/ r.error # "0")
    IN  /\ fault = "none"
        /\ me.pc = "flush_wait"
        /\ IF me.dangling THEN Fault("use_after_free")
           ELSE /\ f.mtx = "free"
                /\ f.force_exit = 1 \/ r.bytes_processed = r.size \/ r.error # "0"
                /\ th' = [th EXCEPT ![t].pc = "close_relock",
                                    ![t].done = IF failed THEN -1
                                                ELSE me.done + r.bytes_processed]
                /\ req' = [req EXCEPT ![t] = NoReq]
                /\ last' = NoEvent
                /\ UNCHANGED <<open_files, handshake, pipecapacity, plan, file, chan, acct, disp, fault,
                               written, delivered>>

(***************************************************************************)
(* netpipe_close after netpipe_flush returned: lock again and run the      *)
(* tail.                                                                   *)
(***************************************************************************)
netpipe_close_relock(t) ==
    LET s == SideOf(t)
        me == th[t]
        f == file[s]
    IN  /\ fault = "none"
        /\ me.pc = "close_relock"
        /\ IF me.dangling THEN Fault("use_after_free")
           ELSE /\ f.mtx = "free"
                /\ close_tail(t, f, IF me.done <= 0 THEN -1 ELSE 0)
                /\ UNCHANGED <<open_files, handshake, pipecapacity, plan, req, fault, written, delivered>>

(***************************************************************************)
(* The dispatcher thread.  It takes the oldest message of the channel and  *)
(* looks the pipe up: get_or_create for OPEN (first step of                *)
(* netpipe_open_update), get for the others; a message for a path that     *)
(* has no pipe is dropped.                                                 *)
(***************************************************************************)
dispatcher_read(s) ==
    LET m == Head(chan[s])
        created == file[s] = NoFile
    IN  /\ fault = "none"
        /\ disp[s].pc = "idle"
        /\ chan[s] # <<>>
        /\ chan' = [chan EXCEPT ![s] = Tail(@)]
        /\ IF m.op = "OPEN"
           THEN /\ file' = IF created THEN [file EXCEPT ![s] = netpipe_alloc(s)] ELSE file
                /\ disp' = [disp EXCEPT ![s] = [pc |-> "got", msg |-> m,
                                                just_created |-> IF created THEN 1 ELSE 0,
                                                dangling |-> FALSE]]
           ELSE /\ file' = file
                /\ disp' = IF created THEN disp
                           ELSE [disp EXCEPT ![s] = [pc |-> "got", msg |-> m,
                                                     just_created |-> 0,
                                                     dangling |-> FALSE]]
        /\ last' = [NoEvent EXCEPT !.open_files_mtx = "taken"]
        /\ UNCHANGED <<open_files, handshake, pipecapacity, plan, th, req, fault, written, delivered, acct>>

(***************************************************************************)
(* The dispatcher calls the pipe method of the message it holds:           *)
(* netpipe_open_update (from its lock), netpipe_recv, netpipe_read_request,*)
(* netpipe_read_update or netpipe_close_update.                            *)
(***************************************************************************)
dispatcher_apply(s) ==
    LET m == disp[s].msg
        f == file[s]
        c == Ctx(s)
    IN  /\ fault = "none"
        /\ disp[s].pc = "got"
        /\ IF disp[s].dangling THEN Fault("use_after_free")
           ELSE /\ f.mtx = "free"
                /\ \E g \in Indeterminate :
                     LET rcv == netpipe_recv(c, m.data)
                         c1 == CASE m.op = "OPEN" -> netpipe_open_update(c, m.mode)
                                 [] m.op = "WRITE" -> rcv.c
                                 [] m.op = "READ_REQUEST" -> netpipe_read_request(c, m.size, g)
                                 [] m.op = "READ" -> netpipe_read_update(c, m.size, g)
                                 [] m.op = "CLOSE" -> netpipe_close_update(c, m.mode)
                         freed == m.op = "CLOSE" /\ c1.f.writers = 0 /\ c1.f.readers = 0
                     IN  /\ CommitRecv(IF freed THEN [c1 EXCEPT !.f = NoFile] ELSE c1,
                                       IF m.op = "WRITE" THEN Len(m.data) ELSE 0)
                         /\ th' = IF freed THEN Orphan(th, s, "dispatcher") ELSE th
                         /\ fault' = IF m.op = "WRITE" /\ rcv.overrun THEN "overrun"
                                     ELSE fault
                         /\ last' = [NoEvent EXCEPT
                                       !.who = s, !.call = m.op,
                                       !.size = IF m.op = "WRITE" THEN Len(m.data)
                                                ELSE IF m.op \in {"READ", "READ_REQUEST"}
                                                THEN m.size ELSE 0,
                                       !.room = cbuf_space(s, f)
                                                + pending_read_remaining(f.rd_req, req),
                                       !.credit = <<f.remotesize, f.remotemax>>,
                                       !.before = Counters(f),
                                       !.after = Counters(c1.f),
                                       !.writes = Writes(c1.out),
                                       !.open_files_mtx =
                                           IF freed THEN "taken_under_pipe_mtx"
                                           ELSE "not_taken"]
                /\ disp' = [disp EXCEPT ![s] = IdleDisp]
                /\ UNCHANGED <<open_files, handshake, pipecapacity, plan, written, delivered>>

(***************************************************************************)
(* netpipe_force_exit: the flag is set and the three conditions are        *)
(* broadcast.                                                              *)
(***************************************************************************)
netpipe_force_exit(f) == [f EXCEPT !.force_exit = 1]

(***************************************************************************)
(* The dispatcher stops: its read of the channel returned <= 0.  It calls  *)
(* netpipe_force_exit on every pipe of the table and exits; the messages   *)
(* it did not read are lost.                                               *)
(***************************************************************************)
dispatcher_stop(s) ==
    /\ fault = "none"
    /\ disp[s].pc = "idle"
    /\ file[s] # NoFile => file[s].mtx = "free"
    /\ disp' = [disp EXCEPT ![s].pc = "stopped"]
    /\ chan' = [chan EXCEPT ![s] = <<>>]
    /\ file' = IF file[s] = NoFile THEN file
               ELSE [file EXCEPT ![s] = netpipe_force_exit(@)]
    /\ last' = [NoEvent EXCEPT !.who = s, !.call = "force_exit"]
    /\ UNCHANGED <<open_files, handshake, pipecapacity, plan, th, req, fault, written, delivered, acct>>

(***************************************************************************)
(* open_callback with O_RDWR: rejected before any pipe is looked up.       *)
(***************************************************************************)
open_callback_rdwr(t) ==
    /\ fault = "none"
    /\ th[t].pc = "idle"
    /\ th[t].opens < plan[t].opens
    /\ \E m \in plan[t].modes : m[1] = O_RDWR
    /\ th' = [th EXCEPT ![t].opens = @ + 1]
    /\ UNCHANGED <<open_files, handshake, pipecapacity, plan, file, chan, acct, req, disp, fault, written, delivered>>
    /\ last' = [NoEvent EXCEPT !.who = t, !.call = "open", !.how = "precondition",
                               !.mode = O_RDWR, !.ret = -1, !.errno = "EINVAL",
                               !.before = Counters(file[SideOf(t)]),
                               !.after = Counters(file[SideOf(t)]),
                               !.pre = Frame(SideOf(t)),
                               !.post = Frame(SideOf(t))']

(***************************************************************************)
(* The handshake of main.c.  Both peers have listened, connected and       *)
(* accepted: peer p holds its listener fd_server, its outbound socket      *)
(* fd_skt (whose other end is the peer's fd_accepted) and its accepted     *)
(* socket fd_accepted.  Host strings come from a small set; the parse of a *)
(* dotted quad is a table over that set and "localhost" does not parse.    *)
(***************************************************************************)
HostStrings == {"10.0.0.1", "10.0.0.2", "10.0.1.1", "localhost"}
Ports == 1..MaxPort

\* <<>> stands for the return value -1
ipv4_address_to_array(h) ==
    CASE h = "10.0.0.1" -> <<10, 0, 0, 1>>
      [] h = "10.0.0.2" -> <<10, 0, 0, 2>>
      [] h = "10.0.1.1" -> <<10, 0, 1, 1>>
      [] OTHER -> <<>>

\* hostcmp without the comparison of the addresses
hostcmp_ports_only(firsthost, firstport, secondhost, secondport) ==
    firstport - secondport

hostcmp(firsthost, firstport, secondhost, secondport) ==
    LET firstaddr == ipv4_address_to_array(firsthost)
        secondaddr == ipv4_address_to_array(secondhost)
        differ == {i \in 1..4 : firstaddr[i] # secondaddr[i]}
        i == CHOOSE j \in differ : \A k \in differ : j <= k
    IN  IF firstaddr = <<>> \/ secondaddr = <<>> THEN 0
        ELSE IF differ # {} THEN firstaddr[i] - secondaddr[i]
        ELSE firstport - secondport

\* establish_socket_connection after socket_accept has returned
Connected(host, local_port, remote_port) ==
    [ host |-> host, local_port |-> local_port, remote_port |-> remote_port,
      pc |-> "connected", fd_server |-> "open", fd_skt |-> "open",
      fd_accepted |-> "open", host_received |-> "", comparison |-> 0,
      kept |-> "none", port |-> 0, errno |-> "0" ]

\* establish_socket_connection from the comparison of the hosts to the return
compare_and_keep(me, host_received) ==
    LET comparison == hostcmp(me.host, me.local_port, host_received, me.remote_port)
        got == [me EXCEPT !.host_received = host_received, !.comparison = comparison]
    IN  IF comparison > 0
        THEN [got EXCEPT !.pc = "done", !.fd_skt = "closed", !.fd_server = "closed",
                         !.kept = "fd_accepted", !.port = me.local_port]
        ELSE IF comparison < 0
        THEN [got EXCEPT !.pc = "done", !.fd_accepted = "closed",
                         !.fd_server = "closed", !.kept = "fd_skt", !.port = -1]
        ELSE [got EXCEPT !.pc = "failed", !.errno = "EINVAL", !.fd_accepted = "closed",
                         !.fd_server = "closed", !.fd_skt = "closed"]

(***************************************************************************)
(* The open-files table of a host (openfiles.c), step by step.  A caller   *)
(* of netpipefs_get_or_create_open_file is a user thread of the host or    *)
(* its dispatcher (netpipe_open_update); all of them ask for the one path. *)
(* The table is the list of the pipes stored under that path, a pipe is    *)
(* the number netpipe_alloc gave it, NULL is 0.                            *)
(***************************************************************************)
CallersOf(s) == {t \in Threads : SideOf(t) = s} \cup {s}

NoCall == [pc |-> "idle", file |-> 0, just_created |-> 0]

NoCalls ==
    [s \in Sides |-> [mtx |-> "free", table |-> <<>>, allocated |-> 0,
                      call |-> [k \in CallersOf(s) |-> NoCall]]]

\* pthread_mutex_lock(&open_files_mtx) that does not wait for the owner
open_files_mtx_not_taken(s) == TRUE

\* pthread_mutex_lock(&open_files_mtx) returns when nobody owns the mutex
open_files_mtx_lock(s) == open_files[s].mtx = "free"

\* icl_hash_find: the pipe stored under the path, or NULL
icl_hash_find(table) == IF table = <<>> THEN 0 ELSE Head(table)

\* lines 65-67: *just_created = 0 and the lock
get_or_create_lock(s, k) ==
    /\ open_files[s].call[k].pc = "idle"
    /\ open_files_mtx_lock(s)
    /\ open_files' = [open_files EXCEPT ![s].mtx = k, ![s].call[k].pc = "locked"]
    /\ UNCHANGED <<handshake, pipecapacity, plan, file, chan, th, req, disp, fault, written,
                   delivered, acct, last>>

\* line 74: the lookup
get_or_create_find(s, k) ==
    /\ open_files[s].call[k].pc = "locked"
    /\ open_files' = [open_files EXCEPT
                        ![s].call[k].pc = "found",
                        ![s].call[k].file = icl_hash_find(open_files[s].table)]
    /\ UNCHANGED <<handshake, pipecapacity, plan, file, chan, th, req, disp, fault, written,
                   delivered, acct, last>>

\* lines 75-82: no pipe was found: netpipe_alloc and icl_hash_insert
get_or_create_insert(s, k) ==
    LET o == open_files[s]
        new == o.allocated + 1
    IN  /\ o.call[k].pc = "found"
        /\ open_files' =
              IF o.call[k].file = 0
              THEN [open_files EXCEPT ![s].allocated = new,
                                      ![s].table = Append(@, new),
                                      ![s].call[k] = [pc |-> "inserted", file |-> new,
                                                      just_created |-> 1]]
              ELSE [open_files EXCEPT ![s].call[k].pc = "inserted"]
        /\ UNCHANGED <<handshake, pipecapacity, plan, file, chan, th, req, disp, fault,
                       written, delivered, acct, last>>

\* lines 84-86: the unlock and the return
get_or_create_return(s, k) ==
    /\ open_files[s].call[k].pc = "inserted"
    /\ open_files' = [open_files EXCEPT ![s].mtx = "free",
                                        ![s].call[k].pc = "returned"]
    /\ UNCHANGED <<handshake, pipecapacity, plan, file, chan, th, req, disp, fault, written,
                   delivered, acct, last>>

(***************************************************************************)
(* The initial state: both hosts are mounted, the handshake has exchanged  *)
(* the capacities, no pipe is open.                                        *)
(***************************************************************************)
InitPipes ==
    /\ open_files = NoCalls
    /\ file = [s \in Sides |-> NoFile]
    /\ chan = [s \in Sides |-> <<>>]
    /\ req = [t \in Threads |-> NoReq]
    /\ disp = [s \in Sides |-> IdleDisp]
    /\ fault = "none"
    /\ written = 0
    /\ delivered = <<>>
    /\ acct = [s \in Sides |-> [read_sent |-> 0, write_recv |-> 0]]
    /\ last = NoEvent
    /\ th = [t \in Threads |-> IdleThread]

\* the peers have connected: A took the larger tuple
Mounted ==
    [ A |-> compare_and_keep(Connected("10.0.0.2", 2, 1), "10.0.0.1"),
      B |-> compare_and_keep(Connected("10.0.0.1", 1, 2), "10.0.0.2") ]

InitState ==
    /\ handshake = Mounted
    /\ InitPipes

InitCommon ==
    /\ pipecapacity \in [Sides -> 1..MaxCap]
    /\ InitState

\* a thread that makes no call
NoPlan == [modes |-> {}, opens |-> 0, ops |-> 0, sizes |-> {}]

\* The calls of a run: either each thread opens once and issues up to MaxOps
\* send/read calls, or the writer opens up to MaxOpens times and each thread
\* issues one call.
Budgets ==
    { [a1 |-> [opens |-> 1, ops |-> MaxOps], b1 |-> [opens |-> 1, ops |-> MaxOps]],
      [a1 |-> [opens |-> MaxOpens, ops |-> 1], b1 |-> [opens |-> 1, ops |-> 1]] }

Writer == {<<O_WRONLY, 0>>, <<O_WRONLY, 1>>}
Reader == {<<O_RDONLY, 0>>, <<O_RDONLY, 1>>}

\* a1 is a writer, b1 a reader; each handle is blocking or non-blocking
Init ==
    /\ InitCommon
    /\ \E b \in Budgets :
          plan = [t \in Threads |->
                    IF t = "a2" THEN NoPlan
                    ELSE [modes |-> IF t = "a1" THEN Writer ELSE Reader,
                          opens |-> b[t].opens, ops |-> b[t].ops,
                          sizes |-> 1..MaxSize]]

Next ==
    \/ \E t \in Threads : netpipefs_get_or_create_open_file(t)
    \/ \E t \in Threads : netpipe_open(t)
    \/ \E t \in Threads : netpipe_open_wake(t)
    \/ \E t \in Threads : netpipe_send(t)
    \/ \E t \in Threads : netpipe_send_wake(t)
    \/ \E t \in Threads : netpipe_read(t)
    \/ \E t \in Threads : netpipe_read_wake(t)
    \/ \E t \in Threads : netpipe_close(t)
    \/ \E t \in Threads : netpipe_flush(t)
    \/ \E t \in Threads : netpipe_flush_wake(t)
    \/ \E t \in Threads : netpipe_close_relock(t)
    \/ \E s \in Sides : dispatcher_read(s)
    \/ \E s \in Sides : dispatcher_apply(s)

Spec == Init /\ [][Next]_vars

(***************************************************************************)
(* Properties.  Bytes are numbered in the order the send calls offer them: *)
(* the i-th byte accepted has the value i.                                 *)
(***************************************************************************)
Accepted == [i \in 1..written |-> i]

ReadReturned == last.call = "read" /\ last.who \in Threads
SendReturned == last.call = "send" /\ last.who \in Threads
OpenReturned == last.call = "open" /\ last.who \in Threads

\* C3: a read that finds writers == 0 after taking k < size bytes from the
\* local buffer returns k (0, end of file, only when k = 0).
C3_NoWriterReadReturnsTaken ==
    (ReadReturned /\ last.how = "nowriter") => last.ret = last.done

\* C4: a blocking read whose request was ended with EPIPE by the close of the
\* peer's last writer returns 0 when it collected nothing and the total of
\* the bytes it collected otherwise; it never fails.
C4_BrokenPipeReadReturnsCollected ==
    (ReadReturned /\ last.how = "woken" /\ last.error = "EPIPE")
        => last.ret = last.done + last.processed

\* C5: a blocking send woken by an error on its queued request returns the
\* total of the bytes the call accepted (sent directly, written ahead and
\* processed from the request); it fails only when that total is 0.
C5_WokenSendReturnsAccepted ==
    (SendReturned /\ last.how = "woken" /\ last.error # "0")
        => IF last.done + last.processed = 0 THEN last.ret = -1
           ELSE last.ret = last.done + last.processed

\* a read returned 0, the end of file
EofReturned == ReadReturned /\ last.ret = 0 /\ last.errno # "EAGAIN"

\* the writer has closed its first handle and holds none
WriterClosed == th["a1"].opens = 1 /\ th["a1"].pc = "idle"

\* C1: once the writer has written N bytes and closed and a read of the
\* reader returns 0 (end of file), the bytes returned to the reads are
\* exactly the N bytes written.
C1_RoundTrip == (WriterClosed /\ EofReturned) => delivered = Accepted

\* the bytes accepted so far, plus every byte of a send call still blocked
Offered ==
    written + (IF th["a1"].pc = "send_wait" THEN th["a1"].size ELSE 0)

\* C2: the bytes handed to the read calls are always a prefix of the bytes
\* the send calls accepted (counting, for a send call still blocked, every
\* byte it offers), in the same order.
C2_FifoPrefix ==
    /\ Len(delivered) <= Offered
    /\ \A i \in 1..Len(delivered) : delivered[i] = i

OtherSide(counters, mode) == IF mode = O_WRONLY THEN counters[1] ELSE counters[2]

\* C8: a non-blocking open made while the other side's counter is 0 fails
\* with EAGAIN and leaves readers and writers as they were before the call.
C8_NonblockOpenTryAgain ==
    (OpenReturned /\ last.nonblock = 1 /\ OtherSide(last.before, last.mode) = 0)
        => last.ret = -1 /\ last.errno = "EAGAIN" /\ last.after = last.before

C8_TryAgainReturned ==
    OpenReturned /\ last.nonblock = 1 /\ last.errno = "EAGAIN"

\* C9: every WRITE of n bytes is sent in a state where
\* remotesize + n <= remotemax, and remotesize grows by exactly n.
C9_CreditSafety ==
    LET w == last.writes IN
    \A i \in 1..Len(w) :
        /\ w[i].rs + w[i].n <= w[i].rm
        /\ IF i < Len(w) THEN w[i + 1].rs = w[i].rs + w[i].n
           ELSE file[w[i].side] # NoFile
                /\ file[w[i].side].remotesize = w[i].rs + w[i].n

\* C10: when the dispatcher processes a WRITE of n bytes, the free space of
\* the buffer plus the remaining bytes of the pending read requests is at
\* least n.
C10_ReceiverCapacity ==
    (last.call = "WRITE" /\ last.who \in Sides) => last.room >= last.size

(***************************************************************************)
(* Both sides open the path up to MaxOpens times, with blocking handles;   *)
(* both hosts advertise capacity 1.                                        *)
(***************************************************************************)
ReopenInit ==
    /\ InitCommon
    /\ pipecapacity["A"] = 1 /\ pipecapacity["B"] = 1
    /\ plan = [t \in Threads |->
                 IF t = "a2" THEN NoPlan
                 ELSE [modes |-> IF t = "a1" THEN {<<O_WRONLY, 0>>} ELSE {<<O_RDONLY, 0>>},
                       opens |-> MaxOpens,
                       ops |-> IF t = "a1" THEN MaxOps ELSE 1,
                       sizes |-> 1..MaxSize]]

ReopenSpec == ReopenInit /\ [][Next]_vars

(***************************************************************************)
(* Rendezvous under fair scheduling: each side opens the path once, with a *)
(* blocking handle.  Threads that can run do run, and so do the            *)
(* dispatchers; a user is free never to call send, read or close.          *)
(***************************************************************************)
LiveInit ==
    /\ InitCommon
    /\ plan = [t \in Threads |->
                 IF t = "a2" THEN NoPlan
                 ELSE [modes |-> IF t = "a1" THEN {<<O_WRONLY, 0>>} ELSE {<<O_RDONLY, 0>>},
                       opens |-> 1, ops |-> MaxOps,
                       sizes |-> 1..MaxSize]]

Fairness ==
    /\ \A t \in Threads :
          /\ WF_vars(netpipefs_get_or_create_open_file(t))
          /\ WF_vars(netpipe_open(t))
          /\ WF_vars(netpipe_open_wake(t))
          /\ WF_vars(netpipe_send_wake(t))
          /\ WF_vars(netpipe_read_wake(t))
          /\ WF_vars(netpipe_flush(t))
          /\ WF_vars(netpipe_flush_wake(t))
          /\ WF_vars(netpipe_close_relock(t))
    /\ \A s \in Sides :
          /\ WF_vars(dispatcher_read(s))
          /\ WF_vars(dispatcher_apply(s))

LiveSpec == LiveInit /\ [][Next]_vars /\ Fairness

\* C7: when A opens the path write-only and B opens it read-only, both
\* blocking, both opens eventually return the pipe.
C7_RendezvousLiveness ==
    \A t \in Threads :
        (th[t].pc = "open_lock") ~> (OpenReturned /\ last.who = t /\ last.ret = 0)

\* C11: in every state of every pipe remotesize <= remotemax and the buffer
\* holds at most pipecapacity bytes; a READ(n) applied by the dispatcher
\* never subtracts more than remotesize or remotemax hold (no wrap below 0).
C11_CreditAndBufferBounds ==
    /\ \A s \in Sides :
          file[s] # NoFile =>
              /\ file[s].remotesize <= file[s].remotemax
              /\ Len(file[s].buffer) <= pipecapacity[s]
    /\ (last.call = "READ" /\ last.who \in Sides)
          => last.size <= last.credit[1] /\ last.size <= last.credit[2]

(***************************************************************************)
(* Flow control under fair scheduling: both hosts have capacity FlowCap;   *)
(* A makes one blocking write of FlowWrite bytes, more than the two        *)
(* buffers hold together, and B makes FlowReads blocking reads of FlowRead *)
(* bytes.  Nobody closes the path.                                         *)
(***************************************************************************)
FlowWrite == FlowReads * FlowRead

FlowInit ==
    /\ pipecapacity = [s \in Sides |-> FlowCap]
    /\ InitState
    /\ plan = [t \in Threads |->
                 IF t = "a2" THEN NoPlan
                 ELSE IF t = "a1"
                 THEN [modes |-> {<<O_WRONLY, 0>>}, opens |-> 1, ops |-> 1,
                       sizes |-> {FlowWrite}]
                 ELSE [modes |-> {<<O_RDONLY, 0>>}, opens |-> 1, ops |-> FlowReads,
                       sizes |-> {FlowRead}]]

FlowFairness ==
    /\ Fairness
    /\ \A t \in Threads : WF_vars(netpipe_send(t)) /\ WF_vars(netpipe_read(t))

FlowNext ==
    \/ \E t \in Threads : netpipefs_get_or_create_open_file(t)
    \/ \E t \in Threads : netpipe_open(t)
    \/ \E t \in Threads : netpipe_open_wake(t)
    \/ \E t \in Threads : netpipe_send(t)
    \/ \E t \in Threads : netpipe_send_wake(t)
    \/ \E t \in Threads : netpipe_read(t)
    \/ \E t \in Threads : netpipe_read_wake(t)
    \/ \E s \in Sides : dispatcher_read(s)
    \/ \E s \in Sides : dispatcher_apply(s)

FlowSpec == FlowInit /\ [][FlowNext]_vars /\ FlowFairness

NonblockSend == SendReturned /\ last.nonblock = 1 /\ last.how # "precondition"

\* the send found a pipe nothing was written to: no byte in flight to the
\* peer, and credit plus local buffer space sum up to both capacities
FreshPipe ==
    /\ last.credit = <<0, pipecapacity[Peer(SideOf(last.who))]>>
    /\ last.room = pipecapacity["A"] + pipecapacity["B"]

\* C13: with equal capacities and the reader not reading, a non-blocking
\* write of twice the capacity on a fresh pipe returns its size, one
\* capacity sent to the peer and one written ahead into the local buffer;
\* a non-blocking write that finds no credit and no buffer space fails
\* with EAGAIN and moves no byte.
C13_NonblockSendExhausted ==
    NonblockSend =>
        /\ (FreshPipe /\ pipecapacity["A"] = pipecapacity["B"]
                /\ last.size = 2 * pipecapacity["A"])
              => /\ last.ret = last.size
                 /\ Len(last.writes) = 1
                 /\ last.writes[1].n = pipecapacity["A"]
                 /\ last.buffered = pipecapacity["A"]
        /\ last.room = 0
              => /\ last.ret = -1
                 /\ last.errno = "EAGAIN"
                 /\ last.writes = <<>>
                 /\ last.buffered = 0

\* the close of the last writer sent CLOSE while the peer's reader is open;
\* last.size is the number of bytes the local buffer held when close was
\* called, last.buffered the number it holds when CLOSE is sent
LastWriterClosed ==
    /\ last.call = "close" /\ last.who \in Threads
    /\ last.mode = O_WRONLY /\ last.after[2] = 0 /\ last.after[1] > 0

\* C14: when the last writer closes with bytes in the local buffer and the
\* reader stays open, CLOSE is sent and close returns only after all those
\* bytes went to the peer: the local buffer is empty when CLOSE is sent.
C14_CloseAfterFlush ==
    (LastWriterClosed /\ last.size > 0) => last.buffered = 0

(***************************************************************************)
(* Channel loss.  Both hosts have capacity 1.  On A two threads open the   *)
(* path: a1 as a writer, which makes one write larger than both buffers,   *)
(* and a2 as a second writer, as a non-blocking reader or read-write; on B *)
(* one reader.  At any moment a dispatcher may find the channel lost and   *)
(* stop.                                                                   *)
(***************************************************************************)
TeardownInit ==
    /\ pipecapacity = [s \in Sides |-> 1]
    /\ InitState
    /\ plan = [t \in Threads |->
                 CASE t = "a1" -> [modes |-> {<<O_WRONLY, 0>>},
                                   opens |-> 1, ops |-> 1, sizes |-> {MaxSize + 1}]
                   [] t = "a2" -> [modes |-> {<<O_WRONLY, 0>>, <<O_RDONLY, 1>>,
                                              <<O_RDWR, 0>>},
                                   opens |-> 1, ops |-> 0, sizes |-> {}]
                   [] t = "b1" -> [modes |-> {<<O_RDONLY, 0>>},
                                   opens |-> 1, ops |-> 1, sizes |-> {MaxSize}]]

TeardownNext ==
    \/ \E t \in Threads : open_callback_rdwr(t)
    \/ \E t \in Threads : netpipefs_get_or_create_open_file(t)
    \/ \E t \in Threads : netpipe_open(t)
    \/ \E t \in Threads : netpipe_open_wake(t)
    \/ \E t \in Threads : netpipe_send(t)
    \/ \E t \in Threads : netpipe_send_wake(t)
    \/ \E t \in Threads : netpipe_read(t)
    \/ \E t \in Threads : netpipe_read_wake(t)
    \/ \E t \in Threads : netpipe_close(t)
    \/ \E t \in Threads : netpipe_flush(t)
    \/ \E t \in Threads : netpipe_flush_wake(t)
    \/ \E t \in Threads : netpipe_close_relock(t)
    \/ \E s \in Sides : dispatcher_read(s)
    \/ \E s \in Sides : dispatcher_apply(s)
    \/ \E s \in Sides : dispatcher_stop(s)

TeardownSpec == TeardownInit /\ [][TeardownNext]_vars

(***************************************************************************)
(* Cancellation.  The plans of TeardownInit without the read-write open    *)
(* and without close: two writers of A, one reader of B, each blocks where *)
(* its operation blocks, and a dispatcher may stop at any moment.  A       *)
(* thread that can take the pipe mutex does so, and a woken thread runs.   *)
(***************************************************************************)
CancelInit ==
    /\ pipecapacity = [s \in Sides |-> 1]
    /\ InitState
    /\ plan = [t \in Threads |->
                 CASE t = "a1" -> [modes |-> {<<O_WRONLY, 0>>},
                                   opens |-> 1, ops |-> 1, sizes |-> {MaxSize + 1}]
                   [] t = "a2" -> [modes |-> {<<O_WRONLY, 0>>},
                                   opens |-> 1, ops |-> 0, sizes |-> {}]
                   [] t = "b1" -> [modes |-> {<<O_RDONLY, 0>>},
                                   opens |-> 1, ops |-> 1, sizes |-> {MaxSize}]]

CancelNext ==
    \/ \E t \in Threads : netpipefs_get_or_create_open_file(t)
    \/ \E t \in Threads : netpipe_open(t)
    \/ \E t \in Threads : netpipe_open_wake(t)
    \/ \E t \in Threads : netpipe_send(t)
    \/ \E t \in Threads : netpipe_send_wake(t)
    \/ \E t \in Threads : netpipe_read(t)
    \/ \E t \in Threads : netpipe_read_wake(t)
    \/ \E s \in Sides : dispatcher_read(s)
    \/ \E s \in Sides : dispatcher_apply(s)
    \/ \E s \in Sides : dispatcher_stop(s)

CancelFairness ==
    /\ \A t \in Threads :
          /\ WF_vars(netpipe_open(t))
          /\ WF_vars(netpipe_open_wake(t))
          /\ WF_vars(netpipe_send_wake(t))
          /\ WF_vars(netpipe_read_wake(t))
    /\ \A s \in Sides :
          /\ WF_vars(dispatcher_read(s))
          /\ WF_vars(dispatcher_apply(s))

CancelSpec == CancelInit /\ [][CancelNext]_vars /\ CancelFairness

\* the thread waits on a condition of the pipe of its side, and
\* netpipe_force_exit has run on that pipe
BlockedOnCancelled(t) ==
    /\ th[t].pc \in {"open_wait", "send_wait", "read_wait", "flush_wait"}
    /\ ~th[t].dangling
    /\ file[SideOf(t)] # NoFile
    /\ file[SideOf(t)].force_exit = 1

\* C15: once force_exit is set on a pipe, every operation blocked on that
\* pipe eventually returns to its caller, however many are blocked at once
\* (a run that a use of freed memory has ended is not held against it).
C15_CancellationLiveness ==
    \A t \in Threads :
        BlockedOnCancelled(t) ~> (th[t].pc \in {"idle", "opened"} \/ fault # "none")

\* a call of a user thread returns on a host whose dispatcher has stopped
AfterTeardown == last.who \in Threads /\ ChannelLost(SideOf(last.who))

\* C16: after the channel is lost and teardown has run, every later open
\* (read-only or write-only) fails with ENOENT, whether or not the path had
\* a pipe at teardown, and every later read or send fails with EPIPE.
C16_AfterTeardownErrors ==
    AfterTeardown =>
        /\ (last.call = "open" /\ last.mode # O_RDWR)
              => (last.ret = -1 /\ last.errno = "ENOENT")
        /\ (last.call \in {"read", "send"} /\ last.how # "woken")
              => (last.ret = -1 /\ last.errno = "EPIPE")

\* an open, a send or a flush has returned the error of a precondition
PreconditionFailed ==
    /\ last.call \in {"open", "send", "flush"}
    /\ last.how = "precondition"

\* the fields a failed precondition must leave alone; a path without a pipe
\* counts as a pipe that nobody has opened
Listed(fr) ==
    LET p == IF fr.pipe = NoFile THEN netpipe_alloc(SideOf(last.who)) ELSE fr.pipe
    IN  <<p.readers, p.writers, p.open_mode, p.buffer, p.rd_req, p.wr_req,
          p.remotesize, p.remotemax, fr.sent>>

\* C17: an open, send or flush that fails on a precondition leaves the pipe
\* of its side (counters, open_mode, buffer, request queues, remotesize,
\* remotemax) as it was and sends no message to the peer.
C17_PreconditionNoSideEffect ==
    PreconditionFailed => Listed(last.post) = Listed(last.pre)

\* every handle of both hosts is closed and no message is in flight
AllClosedAndDrained ==
    /\ fault = "none"
    /\ \A t \in Threads : th[t].pc = "idle"
    /\ \A s \in Sides : /\ chan[s] = <<>>
                        /\ disp[s].pc = "idle"
                        /\ Counters(file[s]) = <<0, 0>>

\* C18: once every handle on both hosts is closed and the channel is
\* drained, the bytes of the READ messages a host sent add up to the bytes
\* of the WRITE messages it received.
C18_ReadUpdateAccounting ==
    AllClosedAndDrained =>
        \A s \in Sides : acct[s].read_sent = acct[s].write_recv

(***************************************************************************)
(* The handshake on its own: two peers with any hosts and ports, each      *)
(* configured with the other's port, have both sockets; each writes its    *)
(* host string and then reads the peer's.  No pipe is opened.              *)
(***************************************************************************)
\* establish_socket_connection up to socket_write_h: the host goes out on fd_skt
socket_write_h(p) ==
    /\ handshake[p].pc = "connected"
    /\ handshake' = [handshake EXCEPT ![p].pc = "sent"]
    /\ UNCHANGED <<open_files, pipecapacity, plan, file, chan, th, req, disp, fault, written,
                   delivered, acct, last>>

\* socket_read_h on fd_accepted returns once the peer has written its host
establish_socket_connection(p) ==
    /\ handshake[p].pc = "sent"
    /\ handshake[Peer(p)].pc # "connected"
    /\ handshake' = [handshake EXCEPT
                       ![p] = compare_and_keep(@, handshake[Peer(p)].host)]
    /\ UNCHANGED <<open_files, pipecapacity, plan, file, chan, th, req, disp, fault, written,
                   delivered, acct, last>>

HandshakeInit ==
    /\ \E ha, hb \in HostStrings : \E pa, pb \in Ports :
          handshake = [A |-> Connected(ha, pa, pb), B |-> Connected(hb, pb, pa)]
    /\ pipecapacity = [s \in Sides |-> 1]
    /\ plan = [t \in Threads |-> NoPlan]
    /\ InitPipes

HandshakeNext ==
    \/ \E p \in Sides : socket_write_h(p)
    \/ \E p \in Sides : establish_socket_connection(p)

HandshakeSpec == HandshakeInit /\ [][HandshakeNext]_vars

\* both calls of establish_socket_connection have returned
BothReturned == \A p \in Sides : handshake[p].pc \in {"done", "failed"}

\* the (host, port) tuple a peer compares for itself
Tuple(p) == <<handshake[p].host, handshake[p].local_port>>

\* one peer, the one whose tuple compares greater, keeps its accepted socket
\* and closes its outbound one; the other keeps its outbound socket and
\* closes its accepted one: the two ends of one connection
KeptOneConnection ==
    \E p \in Sides :
        LET q == Peer(p)
        IN  /\ hostcmp(handshake[p].host, handshake[p].local_port,
                       handshake[q].host, handshake[q].local_port) > 0
            /\ handshake[p].pc = "done" /\ handshake[q].pc = "done"
            /\ handshake[p].kept = "fd_accepted"
            /\ handshake[p].fd_skt = "closed"
            /\ handshake[q].kept = "fd_skt"
            /\ handshake[q].fd_accepted = "closed"

BothFailed == \A p \in Sides : handshake[p].pc = "failed"

\* both host strings are IPv4 addresses
HostsParse == \A p \in Sides : ipv4_address_to_array(handshake[p].host) # <<>>

\* C19: when the (host, port) tuples of the peers differ, the peer whose
\* tuple compares greater keeps its accepted socket and the other its
\* outbound socket; when the tuples are equal both fail.
C19_HandshakeSymmetryBreaking ==
    BothReturned =>
        IF Tuple("A") # Tuple("B") THEN KeptOneConnection ELSE BothFailed

\* C19, for host strings that parse: when both hosts are IPv4 addresses and
\* the tuples differ, exactly one connection is kept as above; when the
\* tuples are equal or a host does not parse, both peers fail.
C19_HandshakeParsedHosts ==
    BothReturned =>
        IF HostsParse /\ Tuple("A") # Tuple("B") THEN KeptOneConnection
        ELSE BothFailed

\* the address decides before the port: A has the larger address and the
\* smaller port, and keeps its accepted socket
C19_AddressDecided ==
    /\ BothReturned
    /\ handshake["A"].host = "10.0.1.1"
    /\ handshake["B"].host = "10.0.0.2"
    /\ handshake["A"].local_port < handshake["B"].local_port
    /\ handshake["A"].kept = "fd_accepted"
    /\ handshake["B"].kept = "fd_skt"


\* C20: no step takes the open-files table mutex while it holds a pipe
\* mutex, in open (its rollback included), close and close_update.
C20_TableMutexNotUnderPipeMutex ==
    last.open_files_mtx # "taken_under_pipe_mtx"

(***************************************************************************)
(* Two blocking writers on A queue one request each (netpipe_add_request)  *)
(* and the reader on B drains them.  Nobody closes the path.               *)
(***************************************************************************)
QueueInit ==
    /\ pipecapacity = [s \in Sides |-> 1]
    /\ InitState
    /\ plan = [t \in Threads |->
                 IF t = "b1"
                 THEN [modes |-> {<<O_RDONLY, 0>>}, opens |-> 1, ops |-> MaxOps,
                       sizes |-> 1..MaxSize]
                 ELSE [modes |-> {<<O_WRONLY, 0>>}, opens |-> 1, ops |-> 1,
                       sizes |-> {MaxSize + 1}]]

QueueNext ==
    \/ \E t \in Threads : netpipefs_get_or_create_open_file(t)
    \/ \E t \in Threads : netpipe_open(t)
    \/ \E t \in Threads : netpipe_open_wake(t)
    \/ \E t \in Threads : netpipe_send(t)
    \/ \E t \in Threads : netpipe_send_wake(t)
    \/ \E t \in Threads : netpipe_read(t)
    \/ \E t \in Threads : netpipe_read_wake(t)
    \/ \E s \in Sides : dispatcher_read(s)
    \/ \E s \in Sides : dispatcher_apply(s)

QueueSpec == QueueInit /\ [][QueueNext]_vars

\* the requests of a list in the order netpipe_add_request was called:
\* the list is a stack, its last element was pushed first
EnqueueOrder(q) == [i \in 1..Len(q) |-> q[Len(q) + 1 - i]]

\* in this step the request of t gets bytes while the request of u, pending
\* before and after the step, is not complete
ServedBefore(t, u) ==
    /\ req[t] # NoReq /\ req'[t] # NoReq
    /\ req'[t].bytes_processed > req[t].bytes_processed
    /\ req[u] # NoReq /\ req'[u] # NoReq
    /\ req'[u].bytes_processed < req'[u].size

FifoStep(q) ==
    \A i, j \in DOMAIN q : i < j => ~ServedBefore(EnqueueOrder(q)[j], EnqueueOrder(q)[i])

\* C21: the pending requests of a pipe are served in the order they were
\* enqueued: no step gives bytes to a request while a request enqueued
\* before it on the same list is incomplete.
C21_FifoRequests ==
    [][\A s \in Sides : file[s] # NoFile =>
          FifoStep(file[s].wr_req) /\ FifoStep(file[s].rd_req)]_vars


(***************************************************************************)
(* Membership of the open-files table.                                     *)
(***************************************************************************)
\* a netpipe_open, a netpipe_close, a netpipe_open_update or a
\* netpipe_close_update of the side's pipe has started and not returned
InProgress(s) ==
    \/ \E t \in Threads :
          /\ SideOf(t) = s
          /\ th[t].pc \in {"open_lock", "open_wait", "close_flush", "flush_wait",
                           "close_relock"}
    \/ disp[s].pc = "got" /\ disp[s].msg.op \in {"OPEN", "CLOSE"}

\* the step removed the pipe from the table: netpipefs_remove_open_file
Removed == last.open_files_mtx = "taken_under_pipe_mtx"

TableMembership ==
    \A s \in Sides :
       (~InProgress(s) /\ file[s] # NoFile) => file[s].readers + file[s].writers > 0

RollbackRemoval ==
    (last.call = "open" /\ last.ret = -1 /\ Removed) => last.after = <<0, 0>>

CloseRemoval ==
    last.call \in {"close", "CLOSE"} => (Removed <=> last.after = <<0, 0>>)

\* C22: while no open, close or close_update is under way a pipe of the
\* table has readers + writers > 0; the rollback of an open removes the pipe
\* only with both counts 0; close and close_update remove it exactly when
\* both counts are 0.
C22_TableMembership ==
    TableMembership /\ RollbackRemoval /\ CloseRemoval


(***************************************************************************)
(* netpipe_close_update and the pending requests.                          *)
(***************************************************************************)
\* the list a CLOSE of `mode` ends: the reads for a writer's CLOSE, the
\* writes for a reader's
PendingOf(f, mode) == IF mode = O_WRONLY THEN f.rd_req ELSE f.wr_req

\* in this step the dispatcher of s runs netpipe_close_update(file, mode)
AppliesClose(s, mode) ==
    /\ disp[s].pc = "got"
    /\ disp[s].msg.op = "CLOSE"
    /\ disp[s].msg.mode = mode
    /\ disp'[s].pc = "idle"
    /\ file[s] # NoFile

\* the step sets EPIPE on every request of the list and empties the list;
\* the waiters leave their loop on request->error
Terminated(s, mode) ==
    /\ \A i \in DOMAIN PendingOf(file[s], mode) :
          req'[PendingOf(file[s], mode)[i]].error = "EPIPE"
    /\ file'[s] # NoFile => PendingOf(file'[s], mode) = <<>>

\* C23 as stated: a peer CLOSE in write-only mode gives EPIPE to every
\* pending read request and empties the read list, a peer CLOSE in read-only
\* mode does the same to the write requests.
C23_CloseTerminatesPending ==
    [][\A s \in Sides, mode \in {O_RDONLY, O_WRONLY} :
          AppliesClose(s, mode) => Terminated(s, mode)]_vars

\* C23: a peer CLOSE that brings the count of its mode to 0 gives EPIPE to
\* every pending request of the other mode and empties their list; a peer
\* CLOSE that leaves another writer (reader) open leaves the list and the
\* requests as they are.
C23_LastCloseTerminatesPending ==
    [][\A s \in Sides, mode \in {O_RDONLY, O_WRONLY} :
          AppliesClose(s, mode) =>
             IF (IF mode = O_WRONLY THEN file[s].writers ELSE file[s].readers) = 1
             THEN Terminated(s, mode)
             ELSE /\ file'[s] # NoFile
                  /\ PendingOf(file'[s], mode) = PendingOf(file[s], mode)
                  /\ \A i \in DOMAIN PendingOf(file[s], mode) :
                        req'[PendingOf(file[s], mode)[i]].error
                           = req[PendingOf(file[s], mode)[i]].error]_vars

\* the last writer's CLOSE has ended the read b1 is blocked in
C23_ReadTerminated ==
    /\ last.call = "CLOSE" /\ last.who = "B"
    /\ last.before[2] = 1 /\ last.after[2] = 0
    /\ th["b1"].pc = "read_wait"
    /\ req["b1"].error = "EPIPE"


(***************************************************************************)
(* The open-files table on its own: every user thread and the dispatcher   *)
(* of each host call netpipefs_get_or_create_open_file once for the path.  *)
(***************************************************************************)
TableInit ==
    /\ pipecapacity = [s \in Sides |-> 1]
    /\ plan = [t \in Threads |-> NoPlan]
    /\ InitState

TableNext ==
    \/ \E s \in Sides : \E k \in CallersOf(s) : get_or_create_lock(s, k)
    \/ \E s \in Sides : \E k \in CallersOf(s) : get_or_create_find(s, k)
    \/ \E s \in Sides : \E k \in CallersOf(s) : get_or_create_insert(s, k)
    \/ \E s \in Sides : \E k \in CallersOf(s) : get_or_create_return(s, k)

TableSpec == TableInit /\ [][TableNext]_vars

\* the calls of the host that have their pipe and their just_created
Answered(s) ==
    {k \in CallersOf(s) : open_files[s].call[k].pc \in {"inserted", "returned"}}

\* C24: netpipefs_get_or_create_open_file is an atomic insert-if-absent:
\* the table never holds two pipes for the path, all the calls get the same
\* pipe and exactly one of them gets just_created = 1.
C24_GetOrCreateAtomic ==
    \A s \in Sides :
       /\ Len(open_files[s].table) <= 1
       /\ \A k1, k2 \in Answered(s) :
             /\ open_files[s].call[k1].file # 0
             /\ open_files[s].call[k1].file = open_files[s].call[k2].file
       /\ Answered(s) # {} =>
             Cardinality({k \in Answered(s) : open_files[s].call[k].just_created = 1}) = 1

\* the two user threads and the dispatcher of A have all returned: the call
\* of a2 created the pipe, the dispatcher and a1 found it
C24_ThreeCallsReturned ==
    /\ \A k \in CallersOf("A") : open_files["A"].call[k].pc = "returned"
    /\ open_files["A"].call["A"].just_created = 0
    /\ open_files["A"].call["a2"].just_created = 1


\* C25: a pipe operation has released the pipe mutex when it returns: no
\* thread that is outside of every operation (idle, or holding an open
\* handle between two calls) owns the mutex of the pipe.
C25_MutexReleasedOnReturn ==
    \A t \in Threads :
       LET f == file[SideOf(t)] IN
       (f # NoFile /\ f.mtx = t) => th[t].pc \notin {"idle", "opened"}


\* the positions of a user thread inside a pipe operation: between the
\* lookup and the return of netpipe_open, waiting on canopen, wr or rd, or
\* between the steps of netpipe_close
InsideOperation ==
    {"open_lock", "open_wait", "send_wait", "read_wait", "close_flush", "flush_wait",
     "close_relock"}

\* C26: a pipe is not freed while a thread is inside an operation on it or
\* blocked on one of its condition variables, and not while the dispatcher
\* holds it for an update: no such thread is left with the freed pipe.
C26_NoFreeUnderOperation ==
    /\ \A t \in Threads : th[t].dangling => th[t].pc \notin InsideOperation
    /\ \A s \in Sides : ~disp[s].dangling

\* the same for the writer that waits in the flush of its close while the
\* peer's CLOSE is applied
NoFreeUnderFlush ==
    \A t \in Threads : th[t].dangling => th[t].pc # "flush_wait"


(***************************************************************************)
(* The opens of the peer a host has been told of.                          *)
(***************************************************************************)
\* the positions of a thread whose OPEN has been sent and whose CLOSE has not
HoldsHandle ==
    {"open_wait", "opened", "send_wait", "read_wait", "close_flush", "flush_wait",
     "close_relock"}

\* the OPEN or CLOSE messages of a mode that side s has not applied yet
NotApplied(s, op, mode) ==
    Len(SelectSeq(chan[s], LAMBDA x : x.op = op /\ x.mode = mode))
    + (IF disp[s].pc = "got" /\ disp[s].msg.op = op /\ disp[s].msg.mode = mode
       THEN 1 ELSE 0)

\* the opens of the peer in a mode for which netpipe_open_update has
\* returned on s and netpipe_close_update has not
RemoteOpens(s, mode) ==
    Cardinality({u \in Threads : /\ SideOf(u) = Peer(s)
                                 /\ th[u].mode = mode
                                 /\ th[u].pc \in HoldsHandle})
    - NotApplied(s, "OPEN", mode) + NotApplied(s, "CLOSE", mode)

\* C27: a peer OPEN is not lost: while the channel is up, the opens of the
\* peer that netpipe_open_update has counted on a host and that the peer has
\* not closed are in the reader or writer count of a pipe of the host's
\* table.
C27_PeerOpenCounted ==
    (fault = "none" /\ \A s \in Sides : ~ChannelLost(s)) =>
       \A s \in Sides, mode \in {O_RDONLY, O_WRONLY} :
          RemoteOpens(s, mode) > 0 =>
             /\ file[s] # NoFile
             /\ (IF mode = O_RDONLY THEN file[s].readers ELSE file[s].writers)
                   >= RemoteOpens(s, mode)


\* no message is in flight or held by a dispatcher, no thread is inside a
\* pipe operation, both dispatchers run and nothing undefined has happened
Quiescent ==
    /\ fault = "none"
    /\ \A s \in Sides : chan[s] = <<>> /\ disp[s].pc = "idle"
    /\ \A t \in Threads : th[t].pc \in {"idle", "opened"}

\* C28: in a quiescent state the two hosts agree on the pipe: it is in both
\* tables or in neither, with the same readers and the same writers.
C28_ConsistentCounts ==
    Quiescent =>
       /\ (file["A"] = NoFile) <=> (file["B"] = NoFile)
       /\ Counters(file["A"]) = Counters(file["B"])


(***************************************************************************)
(* The peer channel with room for ChanCap messages in each direction.  A   *)
(* call that sends does so under the pipe mutex and blocks in the socket   *)
(* write while the channel is full; here a step is taken once all its      *)
(* messages fit, which are the runs where the writes do not block half     *)
(* way.  Two readers on A, one writer on B, nobody closes the path.        *)
(***************************************************************************)
ChanCap == 1

ChannelFits == \A s \in Sides : Len(chan[s]) <= ChanCap

BoundedInit ==
    /\ pipecapacity \in [Sides -> 1..MaxCap]
    /\ InitState
    /\ plan = [t \in Threads |->
                 IF t = "b1"
                 THEN [modes |-> {<<O_WRONLY, 0>>}, opens |-> 1, ops |-> MaxOps,
                       sizes |-> 1..MaxSize]
                 ELSE [modes |-> {<<O_RDONLY, 0>>}, opens |-> 1, ops |-> 1,
                       sizes |-> {1}]]

BoundedNext ==
    \/ \E t \in Threads : netpipefs_get_or_create_open_file(t) /\ ChannelFits'
    \/ \E t \in Threads : netpipe_open(t) /\ ChannelFits'
    \/ \E t \in Threads : netpipe_open_wake(t) /\ ChannelFits'
    \/ \E t \in Threads : netpipe_send(t) /\ ChannelFits'
    \/ \E t \in Threads : netpipe_send_wake(t) /\ ChannelFits'
    \/ \E t \in Threads : netpipe_read(t) /\ ChannelFits'
    \/ \E t \in Threads : netpipe_read_wake(t) /\ ChannelFits'
    \/ \E s \in Sides : dispatcher_read(s) /\ ChannelFits'
    \/ \E s \in Sides : dispatcher_apply(s) /\ ChannelFits'

BoundedSpec == BoundedInit /\ [][BoundedNext]_vars

\* the pipe method the dispatcher calls for message m
dispatched(c, m, g) ==
    CASE m.op = "OPEN" -> netpipe_open_update(c, m.mode)
      [] m.op = "WRITE" -> netpipe_recv(c, m.data).c
      [] m.op = "READ_REQUEST" -> netpipe_read_request(c, m.size, g)
      [] m.op = "READ" -> netpipe_read_update(c, m.size, g)
      [] m.op = "CLOSE" -> netpipe_close_update(c, m.mode)

\* the dispatcher of s holds a message whose method has to send more than
\* the channel to the peer has room for: it stops in the socket write with
\* the pipe mutex
BlockedInSend(s) ==
    /\ disp[s].pc = "got"
    /\ ~disp[s].dangling
    /\ file[s] # NoFile
    /\ file[s].mtx = "free"
    /\ \A g \in Indeterminate :
          Len(chan[Peer(s)]) + Len(dispatched(Ctx(s), disp[s].msg, g).out) > ChanCap

\* the thread waits on wr or rd for a request nobody has served, or has
\* returned from its last call
Waiting(t) ==
    LET f == file[SideOf(t)]
        r == req[t]
    IN  \/ th[t].pc = "opened" /\ th[t].ops = plan[t].ops
        \/ /\ th[t].pc \in {"send_wait", "read_wait"}
           /\ f # NoFile /\ ~th[t].dangling
           /\ ~(f.force_exit = 1 \/ r.bytes_processed = r.size \/ r.error # "0")

\* C29: over a channel of finite capacity there is no state, with the
\* channel up, in which both dispatchers are blocked in a channel send and
\* no user thread can go on.
C29_NoChannelDeadlock ==
    ~ /\ fault = "none"
      /\ \A s \in Sides : ~ChannelLost(s) /\ BlockedInSend(s)
      /\ \A t \in Threads : Waiting(t)


\* C30: a send of size bytes accepts at most size bytes: the writeahead
\* copies at most size less the bytes sent directly, the value returned is
\* at most size, and the request of a blocked send asks for size less the
\* bytes accepted so far.
C30_SendWithinSize ==
    /\ (last.call = "send" /\ last.how \in {"direct", "writeahead", "woken"}) =>
          last.ret <= last.size
    /\ (last.call = "send" /\ last.how = "writeahead") =>
          last.buffered <= last.size - (last.done - last.buffered)
    /\ \A t \in Threads :
          th[t].pc = "send_wait" =>
             /\ th[t].done <= th[t].size
             /\ req[t].size = th[t].size - th[t].done


(***************************************************************************)
(* The write credit remotemax - remotesize, step by step.                  *)
(***************************************************************************)
\* the bytes of the WRITE messages of a sequence
RECURSIVE WriteBytes(_)
WriteBytes(q) ==
    IF q = <<>> THEN 0
    ELSE (IF Head(q).op = "WRITE" THEN Len(Head(q).data) ELSE 0) + WriteBytes(Tail(q))

\* the messages side s writes to the socket in this step
SentNow(s) ==
    IF Len(chan'[Peer(s)]) > Len(chan[Peer(s)])
    THEN SubSeq(chan'[Peer(s)], Len(chan[Peer(s)]) + 1, Len(chan'[Peer(s)]))
    ELSE <<>>

\* the size of the READ_REQUEST the dispatcher of s applies in this step
Granted(s) ==
    IF disp[s].pc = "got" /\ disp[s].msg.op = "READ_REQUEST" /\ disp'[s].pc = "idle"
    THEN disp[s].msg.size ELSE 0

\* C31: the credit remotemax - remotesize of a pipe grows only when a
\* READ_REQUEST(n) is applied, by n, and shrinks only by the WRITE bytes
\* sent; applying a READ(n) lowers both terms by n and gives no credit.
C31_CreditFrame ==
    [][\A s \in Sides :
          (file[s] # NoFile /\ file'[s] # NoFile) =>
             available_remote(file'[s])
                = (available_remote(file[s]) + Granted(s) + SIZE_MOD
                   - WriteBytes(SentNow(s))) % SIZE_MOD]_vars

\* the writer's host has applied a READ for bytes the peer took from its
\* buffer: both terms are lower, the credit is still 0 and a byte written
\* ahead stays in the writer's buffer
C31_ReadGaveNoCredit ==
    /\ last.call = "READ" /\ last.who = "A" /\ last.size > 0
    /\ file["A"] # NoFile
    /\ file["A"].remotemax = last.credit[2] - last.size
    /\ file["A"].remotesize = last.credit[1] - last.size
    /\ available_remote(file["A"]) = 0
    /\ file["A"].buffer # <<>>

=============================================================================
